---- MODULE Spec2Model ----
(***************************************************************************)
(* Sweet Shop Management front end: the session store (AuthProvider), the  *)
(* HTTP client (ApiService), the login form (LoginPage), the product card  *)
(* (SweetCard) and the toast module (showToast and the Toast component).   *)
(*                                                                         *)
(* One browser tab is modelled.  localStorage outlives a page load; every  *)
(* other variable is JavaScript state of the loaded page and is rebuilt by *)
(* PageLoad.  An awaited fetch splits a handler in two actions: the part   *)
(* up to the await, and the continuation that runs when the answer comes.  *)
(*                                                                         *)
(* Spec is the application with no Toast component rendered; SpecStored is *)
(* Spec opened over storage left by earlier visits; SpecFair is Spec with  *)
(* purchase requests that settle; SpecToast is the toast module with its   *)
(* components on a page that does nothing else.                            *)
(***************************************************************************)
EXTENDS Integers, Sequences, FiniteSets, TLC

\* ------------------------------------------------------------------ bounds
MaxStock == 2
MaxToastId == 3

\* ------------------------------------------------------------ value domains
\* A stored string is a tuple of its pieces; getItem's null is the empty tuple
NoEntry == <<>>
Str(t) == <<t>>
\* user === null
Null == [username |-> "<null>", token |-> "<null>"]
NoNav == "<none>"

Cards == {5}
Usernames == {"testuser", "admin"}
Tokens == {"abc", "xyz"}
FormUsernames == {"", " ", "testuser", "admin"}
FormPasswords == {"", "test123"}
Pages == {"/login", "/dashboard", "/register"}
QuantityInputs == (-1)..(MaxStock + 1)
\* Toast component instances that may be rendered, and what callers publish
ToastInstances == {"A", "B"}
ToastMessages == {"Saved"}
ToastTypes == {"success", "error", "info"}

\* A fetch outcome.  status 0 stands for fetch() itself rejecting (no answer);
\* each body field is the empty set when the parsed body lacks it.
Resp(s, d, t, c) == [status |-> s, detail |-> d, access_token |-> t, total_cost |-> c]

Responses ==
    {Resp(200, {}, {t}, {}) : t \in Tokens \cup {""}}
    \cup {Resp(200, {}, {}, {75}), Resp(200, {}, {}, {}), Resp(204, {}, {}, {}),
          Resp(401, {"Could not validate credentials"}, {}, {}),
          Resp(400, {"Insufficient stock"}, {}, {}),
          Resp(500, {}, {}, {}),
          Resp(0, {}, {}, {})}

Msg(t, a) == [text |-> t, args |-> a]

\* ------------------------------------------------------------------- state
VARIABLES
    localStorage,          \* key -> stored string, or NoEntry
    page,                  \* the loaded document's path
    href,                  \* navigation the code has asked for, or NoNav
    user, loading,         \* AuthProvider state
    formData, isSubmitting, errors,      \* LoginPage state
    loginRequests, registerRequests, purchaseRequests,   \* open fetch calls
    sweet,                 \* card -> the quantity of the sweet prop
    isLoading, purchaseQuantity, showQuantitySelector,   \* SweetCard state
    onUpdateCalls,         \* how often the card's owner was asked to refresh
    toastId, lastToast,    \* the toast module's counter, the last toast built
    sinceLogout,           \* history: logout ran and no login has succeeded since
    toastListeners,        \* the toast module's listener array
    toastState,            \* Toast instance -> "new", "mounted" or "unmounted"
    toasts,                \* Toast instance -> its toasts state, oldest first
    timers,                \* the pending setTimeout callbacks, oldest first
    lastReturn             \* what the last call of publish returned (0: none yet)

authVars == <<user, loading>>
formVars == <<formData, isSubmitting, errors>>
reqVars == <<loginRequests, registerRequests, purchaseRequests>>
cardVars == <<isLoading, purchaseQuantity, showQuantitySelector>>
toastVars == <<toastId, lastToast>>
busVars == <<toastListeners, toastState, toasts, timers, lastReturn>>
\* everything but the toast module and the Toast components
appVars == <<localStorage, page, href, authVars, formVars, reqVars, sweet,
             cardVars, onUpdateCalls, sinceLogout>>
vars == <<appVars, toastVars, busVars>>

\* ------------------------------------------------------------- localStorage
StorageKeys == {"user", "token", "access_token"}
EmptyStorage == [k \in StorageKeys |-> NoEntry]
getItem(store, k) == store[k]
setItem(store, k, v) == [store EXCEPT ![k] = v]
removeItem(store, k) == [store EXCEPT ![k] = NoEntry]
\* Truthiness of getItem's result: null and the empty string are falsy
Truthy(v) == v # NoEntry /\ v # Str("")

\* JSON.stringify / JSON.parse of the user record {username, token}
JSONstringify(u) == <<"{", "username", u.username, "token", u.token, "}">>
JSONparse(s) == [username |-> s[3], token |-> s[5]]

\* -------------------------------------------------------------- HTTP client
NoHeader == {}
\* ApiService.getAuthHeaders
getAuthHeaders(store) ==
    LET token == getItem(store, "access_token")
    IN  [contentType |-> {"application/json"},
         authorization |-> IF Truthy(token) THEN {<<"Bearer", token[1]>>} ELSE NoHeader]

\* The headers of each operation's fetch call.  login sends a FormData body and
\* no headers argument: fetch itself labels such a body multipart/form-data.
RequestHeaders(op, store) ==
    CASE op = "register" -> [contentType |-> {"application/json"}, authorization |-> NoHeader]
      [] op = "login" -> [contentType |-> {"multipart/form-data"}, authorization |-> NoHeader]
      [] OTHER -> getAuthHeaders(store)

BuildRequest(op, arg, store) == [op |-> op, arg |-> arg, headers |-> RequestHeaders(op, store)]

SessionExpiredMessage == Msg("Session expired. Please login again.", <<>>)

\* ApiService.handleResponse, after a fetch that was answered (status # 0), and
\* the rejection of fetch itself (status 0): what the awaited call gives back.
\* threw: the call rejects with Error(message); otherwise it resolves to data,
\* which is null ({}) for 204 and the parsed body ({r}) otherwise.
handleResponse(r) ==
    CASE r.status = 0 ->
            [threw |-> TRUE, message |-> Msg("Failed to fetch", <<>>), data |-> {}]
      [] r.status = 401 ->
            [threw |-> TRUE, message |-> SessionExpiredMessage, data |-> {}]
      [] r.status \notin 200..299 ->
            [threw |-> TRUE,
             message |-> IF \E d \in r.detail : d # ""
                         THEN Msg(CHOOSE d \in r.detail : TRUE, <<>>)
                         ELSE Msg("HTTP error! status: ", <<r.status>>),
             data |-> {}]
      [] r.status = 204 ->
            [threw |-> FALSE, message |-> Msg("", <<>>), data |-> {}]
      [] OTHER ->
            [threw |-> FALSE, message |-> Msg("", <<>>), data |-> {r}]

StorageAfterAnyError(store, r) ==
    IF r.status \notin 200..299
    THEN removeItem(removeItem(store, "access_token"), "user")
    ELSE store
\* handleResponse's writes for a 401: both removeItem calls
StorageAfterResponse(store, r) ==
    IF r.status = 401
    THEN removeItem(removeItem(store, "access_token"), "user")
    ELSE store

\* handleResponse's window.location.href assignment for a 401
HrefAfterResponse(h, r) == IF r.status = 401 THEN "/login" ELSE h

\* ApiService.isAuthenticated
isAuthenticated(store) == Truthy(getItem(store, "access_token"))

\* ApiService.getErrorMessage, of a thrown Error carrying message m
getErrorMessage(m) ==
    IF m.text # "" THEN m
    ELSE Msg("An unexpected error occurred. Please try again.", <<>>)

\* ------------------------------------------------------------------- toasts
NoToast == [id |-> 0, message |-> Msg("", <<>>), type |-> "none"]
\* showToast: the Notification built for the call (Date.now() is left out)
showToastSameId(id, message, type) == [id |-> id, message |-> message, type |-> type]
showToast(id, message, type) == [id |-> id + 1, message |-> message, type |-> type]
showSuccess(id, message) == showToast(id, message, "success")
showError(id, message) == showToast(id, message, "error")
showInfo(id, message) == showToast(id, message, "info")

RECURSIVE SumLen(_, _)
SumLen(f, S) ==
    IF S = {} THEN 0
    ELSE LET c == CHOOSE x \in S : TRUE IN Len(f[c]) + SumLen(f, S \ {c})

\* Requests whose continuation may still publish a toast on this page
InFlight == Len(loginRequests) + Len(registerRequests) + SumLen(purchaseRequests, Cards)
\* Room for one more toast, counting those the open requests will publish
ToastRoom == toastId + InFlight < MaxToastId

\* Sequence s without its i-th element
RemoveAt(s, i) == SubSeq(s, 1, i - 1) \o SubSeq(s, i + 1, Len(s))

\* ---------------------------------------------------------------- page load
NoErrors == [username |-> "", password |-> ""]
EmptyForm == [username |-> "", password |-> ""]

\* The JavaScript state of a freshly loaded document at path p over storage
\* store: every useState initial value and the toast module's counter.
Mounted(p) ==
    /\ page = p
    /\ href = NoNav
    /\ user = Null
    /\ loading = TRUE
    /\ formData = EmptyForm
    /\ isSubmitting = FALSE
    /\ errors = NoErrors
    /\ loginRequests = <<>>
    /\ registerRequests = <<>>
    /\ purchaseRequests = [c \in Cards |-> <<>>]
    /\ isLoading = [c \in Cards |-> FALSE]
    /\ purchaseQuantity = [c \in Cards |-> 1]
    /\ showQuantitySelector = [c \in Cards |-> FALSE]
    /\ onUpdateCalls = 0
    /\ toastId = 0
    /\ lastToast = NoToast

\* No Toast component has been rendered: nobody listens, nothing is shown
NoToastComponent ==
    /\ toastListeners = <<>>
    /\ toastState = [i \in ToastInstances |-> "new"]
    /\ toasts = [i \in ToastInstances |-> <<>>]
    /\ timers = <<>>
    /\ lastReturn = 0

Init ==
    /\ localStorage = EmptyStorage
    /\ sinceLogout = FALSE
    /\ sweet \in [Cards -> 0..MaxStock]
    /\ \E p \in Pages : Mounted(p)
    /\ NoToastComponent

\* The browser loads a document: the navigation the code asked for, or any
\* path the user opens.  Requests of the old document are dropped with it.
PageLoad(p) ==
    /\ href # NoNav => p = href
    /\ page' = p
    /\ href' = NoNav
    /\ user' = Null
    /\ loading' = TRUE
    /\ formData' = EmptyForm
    /\ isSubmitting' = FALSE
    /\ errors' = NoErrors
    /\ loginRequests' = <<>>
    /\ registerRequests' = <<>>
    /\ purchaseRequests' = [c \in Cards |-> <<>>]
    /\ isLoading' = [c \in Cards |-> FALSE]
    /\ purchaseQuantity' = [c \in Cards |-> 1]
    /\ showQuantitySelector' = [c \in Cards |-> FALSE]
    /\ onUpdateCalls' = 0
    /\ toastId' = 0
    /\ lastToast' = NoToast
    /\ sweet' \in [Cards -> 0..MaxStock]
    /\ UNCHANGED <<localStorage, sinceLogout>>

\* LoginPage's effect on [user, loading], run by the render that follows a
\* change of either: leave the login page once a user is set.  changed tells
\* whether the handler changed user or loading.
RedirectEffect(h, p, u, l, changed) ==
    IF changed /\ p = "/login" /\ u # Null /\ ~l THEN "/dashboard" ELSE h

\* ------------------------------------------------------------ session store
RehydratedUserIdentityOnly(store) ==
    LET storedUser == getItem(store, "user")
    IN  IF Truthy(storedUser) THEN JSONparse(storedUser) ELSE Null
\* AuthProvider's mount effect
RehydratedUser(store) ==
    LET storedUser == getItem(store, "user")
        token == getItem(store, "token")
    IN  IF Truthy(storedUser) /\ Truthy(token) THEN JSONparse(storedUser) ELSE Null

Rehydrate ==
    /\ loading
    /\ user' = RehydratedUser(localStorage)
    /\ loading' = FALSE
    /\ href' = RedirectEffect(href, page, user', loading', TRUE)
    /\ UNCHANGED <<localStorage, page, formVars, reqVars, sweet, cardVars,
                   onUpdateCalls, toastVars, sinceLogout>>

StorageAfterClearAuthData(store) == removeItem(removeItem(store, "access_token"), "user")

\* AuthProvider.logout's writes to localStorage
StorageAfterLogout(store) == removeItem(removeItem(store, "user"), "token")

logout ==
    /\ ~loading
    /\ ToastRoom
    /\ user' = Null
    /\ localStorage' = StorageAfterLogout(localStorage)
    /\ lastToast' = showSuccess(toastId, Msg("Logged out successfully", <<>>))
    /\ toastId' = toastId + 1
    /\ sinceLogout' = TRUE
    /\ UNCHANGED <<page, href, loading, formVars, reqVars, sweet, cardVars,
                   onUpdateCalls>>

\* AuthProvider.login after the await: what it returns and, on success, the
\* Session it builds.  res is handleResponse's outcome for the answer.
TypeErrorNull == Msg("Cannot read properties of null", <<>>)
TypeErrorUndefined == Msg("Cannot read properties of undefined", <<>>)

loginOutcome(username, res) ==
    IF res.threw
    THEN [success |-> FALSE, message |-> getErrorMessage(res.message), userData |-> Null]
    ELSE IF res.data = {}
    THEN [success |-> FALSE, message |-> getErrorMessage(TypeErrorNull), userData |-> Null]
    ELSE IF \E d \in res.data : \E t \in d.access_token : t # ""
    THEN [success |-> TRUE, message |-> Msg("Login successful", <<>>),
          userData |-> [username |-> username,
                        token |-> CHOOSE t \in UNION {d.access_token : d \in res.data} : TRUE]]
    ELSE [success |-> FALSE, message |-> Msg("Invalid credentials", <<>>), userData |-> Null]

StorageAfterLoginOtherKey(store, out) ==
    IF out.success
    THEN setItem(setItem(store, "user", JSONstringify(out.userData)),
                 "access_token", Str(out.userData.token))
    ELSE store

\* AuthProvider.login's writes to localStorage on success
StorageAfterLogin(store, out) ==
    IF out.success
    THEN setItem(setItem(store, "user", JSONstringify(out.userData)),
                 "token", Str(out.userData.token))
    ELSE store

\* --------------------------------------------------------------- login page
Trim(s) == IF s = " " THEN "" ELSE s

validateFormUsernameOnly(fd) ==
    [username |-> IF Trim(fd.username) = "" THEN "Username is required" ELSE "",
     password |-> ""]

\* LoginPage.validateForm: the errors it sets
validateForm(fd) ==
    [username |-> IF Trim(fd.username) = "" THEN "Username is required" ELSE "",
     password |-> IF fd.password = "" THEN "Password is required" ELSE ""]

FormInteractive == page = "/login" /\ ~loading /\ ~isSubmitting

handleInputChange(name, value) ==
    /\ FormInteractive
    /\ value \in (IF name = "username" THEN FormUsernames ELSE FormPasswords)
    /\ formData' = [formData EXCEPT ![name] = value]
    /\ errors' = [errors EXCEPT ![name] = ""]
    /\ UNCHANGED <<localStorage, page, href, authVars, isSubmitting, reqVars, sweet,
                   cardVars, onUpdateCalls, toastVars, sinceLogout>>

\* LoginPage.handleSubmit up to its await: validation, then the login request
handleSubmit ==
    /\ FormInteractive
    /\ ToastRoom
    /\ errors' = validateForm(formData)
    /\ IF errors' = NoErrors
       THEN /\ isSubmitting' = TRUE
            /\ loginRequests' = Append(loginRequests,
                                       BuildRequest("login", formData, localStorage))
       ELSE UNCHANGED <<isSubmitting, loginRequests>>
    /\ UNCHANGED <<localStorage, page, href, authVars, formData, registerRequests,
                   purchaseRequests, sweet, cardVars,
                   onUpdateCalls, toastVars, sinceLogout>>

\* The login request is answered: handleResponse, the rest of AuthProvider.login,
\* the rest of handleSubmit, and the redirect effect of the render that follows.
loginResponse(i, r) ==
    /\ i \in 1..Len(loginRequests)
    /\ LET req == loginRequests[i]
           out == loginOutcome(req.arg.username, handleResponse(r))
       IN  /\ localStorage' = StorageAfterLogin(StorageAfterResponse(localStorage, r), out)
           /\ user' = IF out.success THEN out.userData ELSE user
           /\ sinceLogout' = IF out.success THEN FALSE ELSE sinceLogout
           /\ lastToast' = IF out.success THEN showSuccess(toastId, out.message)
                           ELSE showError(toastId, out.message)
           /\ toastId' = toastId + 1
           /\ isSubmitting' = FALSE
           /\ href' = RedirectEffect(HrefAfterResponse(href, r), page, user', loading,
                                     user' # user)
    /\ loginRequests' = RemoveAt(loginRequests, i)
    /\ UNCHANGED <<page, loading, formData, errors, registerRequests, purchaseRequests,
                   sweet, cardVars, onUpdateCalls>>

\* The "Sign up here" button
signUpHere ==
    /\ page = "/login" /\ ~loading
    /\ href # "/register"
    /\ href' = "/register"
    /\ UNCHANGED <<localStorage, page, authVars, formVars, reqVars, sweet,
                   cardVars, onUpdateCalls, toastVars, sinceLogout>>

\* ----------------------------------------------------------------- register
\* AuthProvider.register up to its await
register(data) ==
    /\ page = "/register" /\ ~loading
    /\ ToastRoom
    /\ registerRequests' = Append(registerRequests,
                                  BuildRequest("register", data, localStorage))
    /\ UNCHANGED <<localStorage, page, href, authVars, formVars, loginRequests,
                   purchaseRequests, sweet, cardVars,
                   onUpdateCalls, toastVars, sinceLogout>>

\* AuthProvider.register after the await
registerResponse(i, r) ==
    /\ i \in 1..Len(registerRequests)
    /\ LET res == handleResponse(r)
       IN  lastToast' = IF res.threw
                        THEN showError(toastId, getErrorMessage(res.message))
                        ELSE showSuccess(toastId,
                                 Msg("Registration successful! Please log in.", <<>>))
    /\ toastId' = toastId + 1
    /\ localStorage' = StorageAfterResponse(localStorage, r)
    /\ href' = HrefAfterResponse(href, r)
    /\ registerRequests' = RemoveAt(registerRequests, i)
    /\ UNCHANGED <<page, authVars, formVars, loginRequests, purchaseRequests, sweet, cardVars, onUpdateCalls,
                   sinceLogout>>

\* --------------------------------------------------------------- sweet card
isOutOfStock(c) == sweet[c] = 0

SelectorEnabledWhileLoading(c) ==
    /\ page = "/dashboard" /\ ~loading
    /\ ~isOutOfStock(c)
    /\ showQuantitySelector[c]

\* The quantity selector's input, Confirm and Cancel are rendered and enabled
SelectorEnabled(c) ==
    /\ page = "/dashboard" /\ ~loading
    /\ ~isOutOfStock(c)
    /\ showQuantitySelector[c]
    /\ ~isLoading[c]

\* The Buy button is rendered and enabled
BuyEnabled(c) ==
    /\ page = "/dashboard" /\ ~loading
    /\ ~isOutOfStock(c)
    /\ ~showQuantitySelector[c]
    /\ ~(isLoading[c] \/ isOutOfStock(c))

buy(c) ==
    /\ BuyEnabled(c)
    /\ showQuantitySelector' = [showQuantitySelector EXCEPT ![c] = TRUE]
    /\ UNCHANGED <<localStorage, page, href, authVars, formVars, reqVars, sweet, isLoading, purchaseQuantity, onUpdateCalls, toastVars,
                   sinceLogout>>

\* The quantity input's onChange
setPurchaseQuantity(c, v) ==
    /\ SelectorEnabled(c)
    /\ purchaseQuantity' = [purchaseQuantity EXCEPT ![c] = v]
    /\ UNCHANGED <<localStorage, page, href, authVars, formVars, reqVars, sweet, isLoading, showQuantitySelector, onUpdateCalls, toastVars,
                   sinceLogout>>

cancel(c) ==
    /\ SelectorEnabled(c)
    /\ showQuantitySelector' = [showQuantitySelector EXCEPT ![c] = FALSE]
    /\ UNCHANGED <<localStorage, page, href, authVars, formVars, reqVars, sweet, isLoading, purchaseQuantity, onUpdateCalls, toastVars,
                   sinceLogout>>

InvalidQuantityNoUpperBound(q, available) == q <= 0

\* handlePurchase's guard
InvalidQuantity(q, available) == q <= 0 \/ q > available

InvalidQuantityMessage == Msg("Invalid quantity selected", <<>>)

\* SweetCard.handlePurchase up to its await
handlePurchase(c) ==
    /\ SelectorEnabled(c)
    /\ ToastRoom
    /\ IF InvalidQuantity(purchaseQuantity[c], sweet[c])
       THEN /\ lastToast' = showError(toastId, InvalidQuantityMessage)
            /\ toastId' = toastId + 1
            /\ UNCHANGED <<isLoading, purchaseRequests>>
       ELSE /\ isLoading' = [isLoading EXCEPT ![c] = TRUE]
            /\ purchaseRequests' =
                   [purchaseRequests EXCEPT ![c] =
                       Append(@, BuildRequest("purchaseSweet",
                                              [id |-> c, quantity |-> purchaseQuantity[c]],
                                              localStorage))]
            /\ UNCHANGED toastVars
    /\ UNCHANGED <<localStorage, page, href, authVars, formVars, loginRequests,
                   registerRequests, sweet, purchaseQuantity,
                   showQuantitySelector, onUpdateCalls, sinceLogout>>

\* Number.prototype.toFixed(2) of a cost given in tenths: whole part, two digits
toFixed2(tenths) == <<tenths \div 10, (tenths % 10) * 10>>

\* handlePurchase after the await: the try block's outcome.  ok: the success
\* toast was built and the reset and onUpdate lines ran; otherwise the catch
\* block's toast.  quantity is the purchaseQuantity the handler closed over.
purchaseOutcome(c, quantity, res) ==
    IF res.threw
    THEN [ok |-> FALSE, message |-> getErrorMessage(res.message)]
    ELSE IF res.data = {}
    THEN [ok |-> FALSE, message |-> getErrorMessage(TypeErrorNull)]
    ELSE IF \A d \in res.data : d.total_cost = {}
    THEN [ok |-> FALSE, message |-> getErrorMessage(TypeErrorUndefined)]
    ELSE [ok |-> TRUE,
          message |-> Msg("Purchased",
                          <<quantity, c,
                            toFixed2(CHOOSE n \in UNION {d.total_cost : d \in res.data} : TRUE)>>)]

purchaseResponseNoFinally(c, i, r) ==
    /\ i \in 1..Len(purchaseRequests[c])
    /\ LET req == purchaseRequests[c][i]
           out == purchaseOutcome(c, req.arg.quantity, handleResponse(r))
       IN  /\ lastToast' = IF out.ok THEN showSuccess(toastId, out.message)
                           ELSE showError(toastId, out.message)
           /\ toastId' = toastId + 1
           /\ showQuantitySelector' =
                  IF out.ok THEN [showQuantitySelector EXCEPT ![c] = FALSE]
                  ELSE showQuantitySelector
           /\ purchaseQuantity' =
                  IF out.ok THEN [purchaseQuantity EXCEPT ![c] = 1] ELSE purchaseQuantity
           /\ onUpdateCalls' = IF out.ok THEN onUpdateCalls + 1 ELSE onUpdateCalls
    /\ isLoading' = [isLoading EXCEPT ![c] = ~r.status \in 200..299]
    /\ localStorage' = StorageAfterResponse(localStorage, r)
    /\ href' = HrefAfterResponse(href, r)
    /\ purchaseRequests' = [purchaseRequests EXCEPT ![c] = RemoveAt(@, i)]
    /\ UNCHANGED <<page, authVars, formVars, loginRequests, registerRequests,
                   sweet, sinceLogout>>

purchaseResponse(c, i, r) ==
    /\ i \in 1..Len(purchaseRequests[c])
    /\ LET req == purchaseRequests[c][i]
           out == purchaseOutcome(c, req.arg.quantity, handleResponse(r))
       IN  /\ lastToast' = IF out.ok THEN showSuccess(toastId, out.message)
                           ELSE showError(toastId, out.message)
           /\ toastId' = toastId + 1
           /\ showQuantitySelector' =
                  IF out.ok THEN [showQuantitySelector EXCEPT ![c] = FALSE]
                  ELSE showQuantitySelector
           /\ purchaseQuantity' =
                  IF out.ok THEN [purchaseQuantity EXCEPT ![c] = 1] ELSE purchaseQuantity
           /\ onUpdateCalls' = IF out.ok THEN onUpdateCalls + 1 ELSE onUpdateCalls
    /\ isLoading' = [isLoading EXCEPT ![c] = FALSE]
    /\ localStorage' = StorageAfterResponse(localStorage, r)
    /\ href' = HrefAfterResponse(href, r)
    /\ purchaseRequests' = [purchaseRequests EXCEPT ![c] = RemoveAt(@, i)]
    /\ UNCHANGED <<page, authVars, formVars, loginRequests, registerRequests,
                   sweet, sinceLogout>>

\* The card's owner passes a sweet prop with another quantity
ownerRefresh(c, q) ==
    /\ page = "/dashboard" /\ ~loading
    /\ q # sweet[c]
    /\ sweet' = [sweet EXCEPT ![c] = q]
    /\ UNCHANGED <<localStorage, page, href, authVars, formVars, reqVars, cardVars, onUpdateCalls, toastVars, sinceLogout>>

\* ------------------------------------------------- Toast component and bus
\* Array.prototype.indexOf, counted from 1: 0 stands for JavaScript's -1
indexOf(s, x) ==
    IF \E k \in DOMAIN s : s[k] = x
    THEN CHOOSE k \in DOMAIN s : s[k] = x /\ \A j \in 1..(k - 1) : s[j] # x
    ELSE 0

\* The effect's cleanup function for listener l, which forgets the listener
unsubscribeAny(listeners, l) == IF listeners = <<>> THEN listeners ELSE Tail(listeners)
unsubscribe(listeners, l) ==
    LET index == indexOf(listeners, l)
    IN  IF index > 0 THEN RemoveAt(listeners, index) ELSE listeners

\* prev.filter(t => t.id !== id)
filterOutUpTo(prev, id) == SelectSeq(prev, LAMBDA t : t.id > id)
filterOut(prev, id) == SelectSeq(prev, LAMBDA t : t.id # id)

\* The listener of instance i is called with toast: setToasts appends it
listener(list, toast) == Append(list, toast)

RECURSIVE TimersFor(_, _)
\* The setTimeout calls of the listeners in ls for toast id, in call order
TimersFor(ls, id) ==
    IF ls = <<>> THEN <<>>
    ELSE <<[instance |-> Head(ls), id |-> id]>> \o TimersFor(Tail(ls), id)

\* A Toast component is rendered and its effect runs: it starts to listen
mount(i) ==
    /\ toastState[i] = "new"
    /\ toastState' = [toastState EXCEPT ![i] = "mounted"]
    /\ toastListeners' = Append(toastListeners, i)
    /\ UNCHANGED <<appVars, toastVars, toasts, timers, lastReturn>>

\* The effect's cleanup function of instance i is called: by React when the
\* component goes away, which also drops its state, or once more afterwards.
cleanup(i) ==
    /\ toastState[i] \in {"mounted", "unmounted"}
    /\ toastState' = [toastState EXCEPT ![i] = "unmounted"]
    /\ toastListeners' = unsubscribe(toastListeners, i)
    /\ toasts' = [toasts EXCEPT ![i] = <<>>]
    /\ UNCHANGED <<appVars, toastVars, timers, lastReturn>>

\* A call of showToast or of one of its helpers: toast is what the call built.
\* forEach calls every listener in the array, each sets its timer.
publish(toast) ==
    /\ toastId < MaxToastId
    /\ toastId' = toast.id
    /\ lastToast' = toast
    /\ toasts' = [i \in ToastInstances |->
                    IF indexOf(toastListeners, i) > 0
                    THEN listener(toasts[i], toast) ELSE toasts[i]]
    /\ timers' = timers \o TimersFor(toastListeners, toast.id)
    /\ lastReturn' = toast.id
    /\ UNCHANGED <<appVars, toastListeners, toastState>>

\* The user clicks the close button of a toast that instance i shows
removeToast(i, id) ==
    /\ \E k \in DOMAIN toasts[i] : toasts[i][k].id = id
    /\ toasts' = [toasts EXCEPT ![i] = filterOut(toasts[i], id)]
    /\ UNCHANGED <<appVars, toastVars, toastListeners, toastState, timers, lastReturn>>

\* The oldest pending timer runs (all have the same delay).  setToasts of a
\* component that is gone does nothing.
timerFires ==
    /\ timers # <<>>
    /\ LET t == Head(timers)
       IN  toasts' = [toasts EXCEPT ![t.instance] =
                        IF toastState[t.instance] = "mounted"
                        THEN filterOut(toasts[t.instance], t.id)
                        ELSE toasts[t.instance]]
    /\ timers' = Tail(timers)
    /\ UNCHANGED <<appVars, toastVars, toastListeners, toastState, lastReturn>>

\* The toast module and its components alone, on a page that does nothing else
InitToast ==
    /\ localStorage = EmptyStorage
    /\ sinceLogout = FALSE
    /\ sweet = [c \in Cards |-> MaxStock]
    /\ Mounted("/dashboard")
    /\ NoToastComponent

NextToast ==
    \/ \E i \in ToastInstances : mount(i)
    \/ \E i \in ToastInstances : cleanup(i)
    \/ \E m \in ToastMessages, t \in ToastTypes : publish(showToast(toastId, Msg(m, <<>>), t))
    \/ \E m \in ToastMessages : publish(showSuccess(toastId, Msg(m, <<>>)))
    \/ \E m \in ToastMessages : publish(showError(toastId, Msg(m, <<>>)))
    \/ \E m \in ToastMessages : publish(showInfo(toastId, Msg(m, <<>>)))
    \/ \E i \in ToastInstances, id \in 1..MaxToastId : removeToast(i, id)
    \/ timerFires

SpecToast == InitToast /\ [][NextToast]_vars

\* --------------------------------------------------------------------- Next
Next ==
    \/ \E p \in Pages : PageLoad(p)
          /\ UNCHANGED busVars
    \/ Rehydrate
          /\ UNCHANGED busVars
    \/ logout
          /\ UNCHANGED busVars
    \/ \E v \in FormUsernames : handleInputChange("username", v)
          /\ UNCHANGED busVars
    \/ \E v \in FormPasswords : handleInputChange("password", v)
          /\ UNCHANGED busVars
    \/ handleSubmit
          /\ UNCHANGED busVars
    \/ \E i \in DOMAIN loginRequests, r \in Responses : loginResponse(i, r)
          /\ UNCHANGED busVars
    \/ signUpHere
          /\ UNCHANGED busVars
    \/ \E u \in Usernames : register(u)
          /\ UNCHANGED busVars
    \/ \E i \in DOMAIN registerRequests, r \in Responses : registerResponse(i, r)
          /\ UNCHANGED busVars
    \/ \E c \in Cards : buy(c)
          /\ UNCHANGED busVars
    \/ \E c \in Cards, v \in QuantityInputs : setPurchaseQuantity(c, v)
          /\ UNCHANGED busVars
    \/ \E c \in Cards : cancel(c)
          /\ UNCHANGED busVars
    \/ \E c \in Cards : handlePurchase(c)
          /\ UNCHANGED busVars
    \/ \E c \in Cards : \E i \in DOMAIN purchaseRequests[c], r \in Responses :
          purchaseResponse(c, i, r)
          /\ UNCHANGED busVars
    \/ \E c \in Cards, q \in 0..MaxStock : ownerRefresh(c, q)
          /\ UNCHANGED busVars

Spec == Init /\ [][Next]_vars

\* What a browser may hold when the page is opened: nothing; the two entries
\* AuthProvider.login writes; what a 401 leaves of them; and the two entries
\* ApiService.storeAuthData writes, an identity with no "token" entry.
StoredUser == JSONstringify([username |-> "testuser", token |-> "abc"])
StoredSessions ==
    {EmptyStorage,
     setItem(setItem(EmptyStorage, "user", StoredUser), "token", Str("abc")),
     setItem(EmptyStorage, "token", Str("abc")),
     setItem(setItem(EmptyStorage, "access_token", Str("abc")), "user", StoredUser)}

\* The page is opened over storage that earlier visits have left
InitStored ==
    /\ localStorage \in StoredSessions
    /\ sinceLogout = FALSE
    /\ sweet \in [Cards -> 0..MaxStock]
    /\ \E p \in Pages : Mounted(p)
    /\ NoToastComponent

SpecStored == InitStored /\ [][Next]_vars

\* An open purchase request is answered or fails in the end: fetch settles
PurchaseSettles ==
    \E c \in Cards : \E i \in DOMAIN purchaseRequests[c], r \in Responses :
        purchaseResponse(c, i, r) /\ UNCHANGED busVars

SpecFair == Spec /\ WF_vars(PurchaseSettles)

\* =================================================================== claims
Error(id, m) == [id |-> id, message |-> m, type |-> "error"]
Success(id, m) == [id |-> id, message |-> m, type |-> "success"]
\* exactly one toast is published by the step, and it is an error with a text
OneErrorToast == toastId' = toastId + 1 /\ lastToast'.id = toastId'
                 /\ lastToast'.type = "error" /\ lastToast'.message.text # ""
OneSuccessToast == toastId' = toastId + 1 /\ lastToast'.id = toastId'
                   /\ lastToast'.type = "success" /\ lastToast'.message.text # ""
Last(s) == s[Len(s)]

\* C1: a purchase attempt whose pending quantity is <= 0 or above the sweet's
\* available quantity issues no request, publishes exactly one error toast
\* "Invalid quantity selected", and leaves the card in selectingQuantity with
\* the pending quantity unchanged and isLoading false.
C1_InvalidQuantityRejected ==
    [][\A c \in Cards :
         (handlePurchase(c) /\ (purchaseQuantity[c] <= 0 \/ purchaseQuantity[c] > sweet[c]))
         => /\ reqVars' = reqVars
            /\ toastId' = toastId + 1
            /\ lastToast' = Error(toastId + 1, Msg("Invalid quantity selected", <<>>))
            /\ showQuantitySelector'[c] /\ ~isLoading'[c]
            /\ purchaseQuantity'[c] = purchaseQuantity[c]]_vars

\* the scenario of the spec: quantity 3 asked of a sweet with 2 left, rejected
C1_Witness ==
    \E c \in Cards :
        /\ purchaseQuantity[c] = 3 /\ sweet[c] = 2
        /\ showQuantitySelector[c] /\ ~isLoading[c]
        /\ purchaseRequests[c] = <<>>
        /\ lastToast = Error(toastId, Msg("Invalid quantity selected", <<>>))

\* C2: every purchase whose purchaseSweet call resolves (any 2xx answer, the
\* empty 204 result included) leaves the card idle with quantity 1, publishes
\* exactly one success toast and calls onUpdate exactly once.
C2_SuccessfulPurchasePost ==
    [][\A c \in Cards : \A i \in DOMAIN purchaseRequests[c], r \in Responses :
         (purchaseResponse(c, i, r) /\ r.status \in 200..299)
         => /\ ~showQuantitySelector'[c] /\ ~isLoading'[c]
            /\ purchaseQuantity'[c] = 1
            /\ OneSuccessToast
            /\ onUpdateCalls' = onUpdateCalls + 1]_vars

\* C3: a card never has more than one purchaseSweet request open, an open
\* request keeps the card loading, and while a card stays loading neither a new
\* request nor a quantity edit nor a cancel happens on it.
C3_OneRequestInFlight ==
    /\ [](\A c \in Cards : /\ Len(purchaseRequests[c]) <= 1
                           /\ (Len(purchaseRequests[c]) = 1 <=> isLoading[c]))
    /\ [][\A c \in Cards :
            (isLoading[c] /\ isLoading'[c])
            => /\ purchaseRequests'[c] = purchaseRequests[c]
               /\ purchaseQuantity'[c] = purchaseQuantity[c]
               /\ showQuantitySelector'[c] = showQuantitySelector[c]]_vars

C3_Witness ==
    \E c \in Cards : isLoading[c] /\ Len(purchaseRequests[c]) = 1 /\ purchaseQuantity[c] = 2

\* Some operation's continuation handles answer r in this step
Answered(r) ==
    \/ \E i \in DOMAIN loginRequests : loginResponse(i, r)
    \/ \E i \in DOMAIN registerRequests : registerResponse(i, r)
    \/ \E c \in Cards : \E i \in DOMAIN purchaseRequests[c] : purchaseResponse(c, i, r)

\* C4: a 401 answer to any operation leaves no persisted identity entry and no
\* persisted credential token entry, asks for the login page, fails with the
\* session-expired error, and isAuthenticated() is false afterwards.
C4_UnauthorizedClearsSession ==
    [][\A r \in Responses :
         (Answered(r) /\ r.status = 401)
         => /\ \A k \in StorageKeys : localStorage'[k] = NoEntry
            /\ href' = "/login"
            /\ lastToast' = Error(toastId + 1, Msg("Session expired. Please login again.", <<>>))
            /\ ~isAuthenticated(localStorage')]_vars

\* C5: a login answered with a credential token makes the session store hold
\* the given username with the returned token, persists the user record with
\* that username and the token entry equal to the returned token, and reports
\* success.
C5_LoginSuccess ==
    [][\A i \in DOMAIN loginRequests, r \in Responses, t \in Tokens :
         (loginResponse(i, r) /\ r.status = 200 /\ r.access_token = {t})
         => /\ user' = [username |-> formData.username, token |-> t]
            /\ localStorage'["user"] # NoEntry
            /\ JSONparse(localStorage'["user"]).username = formData.username
            /\ localStorage'["token"] = Str(t)
            /\ lastToast' = Success(toastId + 1, Msg("Login successful", <<>>))]_vars

\* the scenario of the spec: testuser logged in with token abc
C5_Witness ==
    /\ user = [username |-> "testuser", token |-> "abc"]
    /\ localStorage["token"] = Str("abc")
    /\ localStorage["user"] # NoEntry
    /\ lastToast.message = Msg("Login successful", <<>>)

\* C6: a login that does not succeed (no token in the answer, or the client
\* throws, a 401 included) reports failure with a message and leaves user and
\* every persisted entry as they were.
C6_FailedLoginChangesNothing ==
    [][\A i \in DOMAIN loginRequests, r \in Responses :
         (loginResponse(i, r)
          /\ ~(r.status = 200 /\ \E t \in r.access_token : t # ""))
         => /\ user' = user
            /\ localStorage' = localStorage
            /\ OneErrorToast]_vars

\* C7: once rehydration has completed, a Session is held exactly when both
\* the identity entry and a non-empty token entry are persisted.
C7_SessionIffPersisted ==
    ~loading =>
        (user # Null <=>
            (localStorage["user"] # NoEntry
             /\ localStorage["token"] # NoEntry /\ localStorage["token"] # Str("")))

\* C8: after a logout, and until a login succeeds, no Session is held and the
\* persisted session entries are gone, so every rehydration in between ends
\* anonymous.
C8_LogoutThenAnonymous ==
    sinceLogout =>
        /\ user = Null
        /\ localStorage["user"] = NoEntry
        /\ localStorage["token"] = NoEntry

\* a page loaded and rehydrated after a logout (its toast counter is back at 0)
C8_Witness == sinceLogout /\ ~loading /\ toastId = 0 /\ user = Null

\* The request the step adds to sequence s, if it adds one
Added(s, t) == IF Len(t) = Len(s) + 1 THEN {Last(t)} ELSE {}
NewRequests ==
    Added(loginRequests, loginRequests') \cup Added(registerRequests, registerRequests')
    \cup UNION {Added(purchaseRequests[c], purchaseRequests'[c]) : c \in Cards}

\* C9: every request built carries a content-type header and, when a
\* credential token is persisted, a bearer authorization header with it.
C9_RequestsCarryBearer ==
    [][\A req \in NewRequests :
         /\ req.headers.contentType # {}
         /\ \A k \in {"token", "access_token"} :
               (localStorage[k] # NoEntry /\ localStorage[k] # Str(""))
               => req.headers.authorization = {<<"Bearer", localStorage[k][1]>>}]_vars

\* The failures C10 names, other than the login form's missing field
C10_FailuresWithToast ==
    /\ \A c \in Cards :
          (handlePurchase(c) /\ (purchaseQuantity[c] <= 0 \/ purchaseQuantity[c] > sweet[c]))
          => OneErrorToast /\ showQuantitySelector'[c] /\ ~isLoading'[c]
    /\ \A c \in Cards : \A i \in DOMAIN purchaseRequests[c], r \in Responses :
          (purchaseResponse(c, i, r) /\ r.status \notin 200..299)
          => OneErrorToast /\ showQuantitySelector'[c] /\ ~isLoading'[c]
    /\ \A i \in DOMAIN loginRequests, r \in Responses :
          (loginResponse(i, r) /\ ~(r.status = 200 /\ \E t \in r.access_token : t # ""))
          => OneErrorToast /\ ~isSubmitting'
    /\ \A i \in DOMAIN registerRequests, r \in Responses :
          (registerResponse(i, r) /\ r.status \notin 200..299)
          => OneErrorToast

MissingField == formData.username \in {"", " "} \/ formData.password = ""

\* C10 as claimed: every failure, a login form submitted with a missing
\* required field included, publishes exactly one toast with a message and
\* leaves the UI interactable.
C10_EveryFailureOneToast ==
    [][/\ C10_FailuresWithToast
       /\ (handleSubmit /\ MissingField) => (OneErrorToast /\ ~isSubmitting')]_vars

\* C10 as amended: a rejected quantity, a failed purchase, a failed login and a
\* failed registration each publish exactly one error toast with a message and
\* leave the card in selectingQuantity, not loading, and the form not
\* submitting; a login form submitted with a missing field publishes no toast
\* and sends nothing: it sets the field's inline error and stays interactable.
C10_FailuresSurface ==
    [][/\ C10_FailuresWithToast
       /\ (handleSubmit /\ MissingField)
          => /\ toastVars' = toastVars
             /\ reqVars' = reqVars
             /\ ~isSubmitting'
             /\ (formData.username \in {"", " "} => errors'.username # "")
             /\ (formData.password = "" => errors'.password # "")]_vars

\* a login form submitted without a password shows its inline error
C10_Witness ==
    /\ page = "/login" /\ ~isSubmitting /\ loginRequests = <<>>
    /\ formData.username = "testuser" /\ formData.password = ""
    /\ errors.password # "" /\ errors.username = ""


\* ------------------------------------------------------------------ C11
\* a step of SpecToast that publishes: a new toast has been built
Published == lastToast' # lastToast

\* C11: every publish, from whichever call site and with or without
\* listeners, returns an id greater than every id returned or shown before,
\* and that id is the id of the toast each listener was handed.
C11_IdsStrictlyIncrease ==
    [][Published =>
          /\ lastReturn' > lastReturn
          /\ \A i \in ToastInstances : \A k \in DOMAIN toasts[i] :
                toasts[i][k].id < lastReturn'
          /\ \A k \in DOMAIN timers : timers[k].id < lastReturn'
          /\ lastToast'.id = lastReturn'
          /\ \A k \in DOMAIN toastListeners :
                LET shown == toasts'[toastListeners[k]]
                IN  shown # <<>> /\ Last(shown).id = lastReturn']_vars

\* A first publish nobody listened to, a second one that instance A received
C11_Witness ==
    /\ lastReturn = 2
    /\ toastListeners = <<"A">>
    /\ toastState["B"] = "new"
    /\ Len(toasts["A"]) = 1
    /\ toasts["A"][1].id = 2


\* ------------------------------------------------------------------ C12
\* after is before without its one toast of that id, the rest as they were
\* and in their order; or before shows no such toast and after equals it
WithoutThatOne(before, after, id) ==
    IF \E k \in DOMAIN before : before[k].id = id
    THEN \E k \in DOMAIN before :
            /\ before[k].id = id
            /\ Len(after) = Len(before) - 1
            /\ \A j \in 1..(k - 1) : after[j] = before[j]
            /\ \A j \in (k + 1)..Len(before) : after[j - 1] = before[j]
    ELSE after = before
OthersKeep(i) == \A j \in ToastInstances \ {i} : toasts'[j] = toasts[j]
IsTimer(t, i, id) == t.instance = i /\ t.id = id
\* a user dismissal removes just that toast from that component
DismissalRemovesThatOne ==
    \A i \in ToastInstances, id \in 1..MaxToastId :
        removeToast(i, id) => WithoutThatOne(toasts[i], toasts'[i], id) /\ OthersKeep(i)
\* so does a timer, which removes nothing if its toast is no longer shown
TimerRemovesThatOne ==
    timerFires =>
        LET t == Head(timers)
        IN  /\ WithoutThatOne(toasts[t.instance], toasts'[t.instance], t.id)
            /\ OthersKeep(t.instance)

\* C12 as stated: a removal, by the user or by the timer, removes exactly the
\* toast of that id and keeps the others in order, and a dismissal cancels
\* the toast's pending timer.
C12_DismissalCancelsTimer ==
    [][/\ DismissalRemovesThatOne
       /\ TimerRemovesThatOne
       /\ \A i \in ToastInstances, id \in 1..MaxToastId :
             removeToast(i, id) => \A k \in DOMAIN timers' : ~IsTimer(timers'[k], i, id)]_vars

\* C12 as the code has it: a removal removes exactly the toast of that id and
\* keeps the others in order; a dismissal leaves every timer pending, that of
\* the dismissed toast included, and that timer later removes nothing.
C12_RemovalRemovesThatOne ==
    [][/\ DismissalRemovesThatOne
       /\ TimerRemovesThatOne
       /\ \A i \in ToastInstances, id \in 1..MaxToastId :
             removeToast(i, id) =>
                /\ timers' = timers
                /\ \E k \in DOMAIN timers : IsTimer(timers[k], i, id)
       /\ (timerFires /\ \A k \in DOMAIN toasts[Head(timers).instance] :
                           toasts[Head(timers).instance][k].id # Head(timers).id)
             => toasts' = toasts]_vars

\* Toast 1 was dismissed while toast 2 stays shown; the timer of 1 is pending
C12_Witness ==
    /\ toastId = 2
    /\ Len(toasts["A"]) = 1
    /\ toasts["A"][1].id = 2
    /\ Len(timers) = 2
    /\ IsTimer(timers[1], "A", 1)


\* ------------------------------------------------------------------ C13
\* C13: the rehydration step sets the user to the cached identity iff both the
\* identity entry and the token entry are there, and to anonymous otherwise;
\* loading is true until that step and false from then on until the next
\* page load; the step and everything before it send no request and write
\* no storage.
C13_Rehydration ==
    /\ [](loading => user = Null /\ InFlight = 0)
    /\ [][Rehydrate =>
            /\ loading /\ ~loading'
            /\ reqVars' = reqVars
            /\ localStorage' = localStorage
            /\ LET identity == localStorage["user"]
                   token == localStorage["token"]
               IN  IF identity # NoEntry /\ token # NoEntry
                   THEN user' = [username |-> identity[3], token |-> identity[5]]
                   ELSE user' = Null]_vars
    /\ [][(~loading /\ loading') => \E p \in Pages : PageLoad(p)]_vars

\* Rehydration has run over an identity entry with no token entry
C13_Witness ==
    /\ ~loading
    /\ user = Null
    /\ localStorage["user"] # NoEntry
    /\ localStorage["token"] = NoEntry
    /\ toastId = 0 /\ InFlight = 0


\* ------------------------------------------------------------------ C14
\* C14: when a purchase request fails, the card shows the selector again with
\* the quantity that was asked for, is no longer loading and is not told to
\* refresh, so the same purchase can be confirmed again; and a card that is
\* loading stops loading once its request has settled, whichever way.
C14_FailedPurchaseRetryable ==
    /\ [][\A c \in Cards : \A i \in DOMAIN purchaseRequests[c], r \in Responses :
            (purchaseResponse(c, i, r) /\ r.status \notin 200..299) =>
                /\ showQuantitySelector'[c]
                /\ purchaseQuantity'[c] = purchaseRequests[c][i].arg.quantity
                /\ purchaseQuantity'[c] = purchaseQuantity[c]
                /\ ~isLoading'[c]
                /\ purchaseRequests'[c] = <<>>
                /\ onUpdateCalls' = onUpdateCalls
                /\ sweet' = sweet]_vars
    /\ [][\A c \in Cards : \A i \in DOMAIN purchaseRequests[c], r \in Responses :
            purchaseResponse(c, i, r) => isLoading[c] /\ ~isLoading'[c]]_vars
    /\ \A c \in Cards : isLoading[c] ~> ~isLoading[c]

\* The purchase is being tried again after a request that failed
C14_Witness ==
    \E c \in Cards :
        /\ isLoading[c]
        /\ Len(purchaseRequests[c]) = 1
        /\ showQuantitySelector[c]
        /\ lastToast.type = "error"
        /\ lastToast.message = Msg("Insufficient stock", <<>>)


\* ------------------------------------------------------------------ C15
\* C15: Cancel hides the selector without sending anything and drops the
\* quantity that had been chosen, so the next Buy on the card opens the
\* selector with quantity 1, as it does after a purchase that succeeded.
C15_CancelDiscardsQuantity ==
    [][\A c \in Cards :
          /\ cancel(c) =>
                /\ ~showQuantitySelector'[c]
                /\ ~isLoading'[c]
                /\ reqVars' = reqVars
          /\ buy(c) => showQuantitySelector'[c] /\ purchaseQuantity'[c] = 1]_vars


\* ------------------------------------------------------------------ C16
Registered(i) == \E k \in DOMAIN toastListeners : toastListeners[k] = i
\* what instance i shows that it did not show before the step
Received(i) == {toasts'[i][k] : k \in DOMAIN toasts'[i]} \ {toasts[i][k] : k \in DOMAIN toasts[i]}
\* the listeners other than i, in their order
Others(ls, i) == SelectSeq(ls, LAMBDA l : l # i)

\* C16: a publish hands the new toast once to each listener registered at
\* that moment and to nobody else, and nothing but a publish hands a toast
\* to anybody; a listener registers once; its cleanup takes it, and only it,
\* out of the listeners, and called again the cleanup changes nothing.
C16_DeliveryToRegistered ==
    /\ [](\A i \in ToastInstances : Registered(i) <=> toastState[i] = "mounted")
    /\ [][/\ Published =>
                /\ \A i \in ToastInstances :
                      IF Registered(i)
                      THEN toasts'[i] = toasts[i] \o <<lastToast'>>
                      ELSE toasts'[i] = toasts[i]
                /\ Len(timers') = Len(timers) + Len(toastListeners)
                /\ toastListeners' = toastListeners
          /\ ~Published => \A i \in ToastInstances : Received(i) = {}
          /\ \A i \in ToastInstances :
                /\ mount(i) => toastListeners' = toastListeners \o <<i>> /\ ~Registered(i)
                /\ cleanup(i) => toastListeners' = Others(toastListeners, i)
                /\ (cleanup(i) /\ ~Registered(i)) => UNCHANGED <<toastListeners, toasts, timers>>]_vars

\* A listened to toast 1 and has unsubscribed; B, which subscribed after
\* toast 1, alone received toast 2
C16_Witness ==
    /\ toastId = 2
    /\ toastState["A"] = "unmounted"
    /\ toastListeners = <<"B">>
    /\ Len(toasts["B"]) = 1
    /\ toasts["B"][1].id = 2
    /\ Len(timers) = 2
    /\ IsTimer(timers[1], "A", 1)
    /\ IsTimer(timers[2], "B", 2)


\* ------------------------------------------------------------------ C17
\* the step is the session store's login taking a token from answer r
LoginStores(r) ==
    /\ \E i \in DOMAIN loginRequests : loginResponse(i, r)
    /\ r.status \in 200..299
    /\ \E t \in r.access_token : t # ""

====
